---- MODULE Spec2Model ----
(***************************************************************************)
(* The message-dispatch engine of server.Server (src/server/server.go):    *)
(* Run and its start-up goroutines, PushMessage, the per-shard dispatch    *)
(* loops with dispatchMessage, and Shutdown.  Every goroutine is a         *)
(* process with its own position; one action is one step of a goroutine    *)
(* between two accesses of shared state.                                   *)
(***************************************************************************)
EXTENDS Integers, Sequences, FiniteSets, TLC

\* ------------------------------------------------------------------ bounds
\* shards of the largest configuration
MaxCore == 2
\* packets one connection's read loop pushes
MaxPackets == 2
\* slots of a shard queue (the code makes them 4096*1000 deep)
QueueCap == 2
\* shutdown-triggering events of one run: OS signal, programmatic Shutdown
\* call, listener failure
MaxTriggers == 2
\* handler invocations that raise a fault
MaxFaults == 1
\* calls of Write and Close the application makes on the connection
MaxCalls == 3
\* timer callbacks that come due
MaxTicks == 2
\* envelopes the application pushes itself
MaxPushes == 2
\* bits of the integers of maths.Pow and maths.PowInt64 (64 in the code)
IntBits == 8
\* the bases are -MaxBase .. MaxBase, the exponents -MaxExp .. MaxExp
MaxBase == 3
MaxExp == 6
\* invocations of the message-error or low-latency hook that raise a fault
MaxHookFaults == 1

\* ------------------------------------------------------------- vocabulary
NetworkTcp == "tcp"
NetworkKcp == "kcp"
NetworkWebsocket == "websocket"
NetworkHttp == "http"
NetworkGRPC == "grpc"
Unsupported == "none"

PipelineKinds == {NetworkTcp, NetworkKcp, NetworkWebsocket}
SupportedKinds == PipelineKinds \cup {NetworkHttp, NetworkGRPC}

MessageTypePacket == "Packet"
MessageTypeError == "Error"
MessageTypeTicker == "Ticker"
MessageErrorActionNone == "None"
MessageErrorActionShutdown == "Shutdown"
\* a directive outside the enumeration, and a kind outside it
OtherAction == "Other"
OtherType == "Unknown"

\* frame types of a WebSocket message
WebsocketMessageTypeText == 1
WebsocketMessageTypeBinary == 2
WebsocketMessageTypePing == 9
\* the frame types the one connection sends
FrameTypes == {WebsocketMessageTypeText, WebsocketMessageTypeBinary}

\* cost > time.Millisecond*100, in milliseconds
LowExecThreshold == 100
\* the milliseconds a handler takes, and the message-error hook
Durations == {10, 100, 150}
HookCosts == {0, 10}

\* the one connection of the model
TheConn == "conn"

RunT == <<"run", 0>>
ExtT(k) == <<"ext", k>>
LoopT(i) == <<"loop", i>>
Shards == 0 .. (MaxCore - 1)
Callers == {RunT} \cup {ExtT(k) : k \in 1 .. MaxTriggers} \cup {LoopT(i) : i \in Shards}

NoMsg == [obj |-> 0, id |-> 0, t |-> "none", attrs |-> << >>]
NoPool == [free |-> {}, made |-> 0]
\* write: the write function is set; handle: the transport handle; log: the
\* calls of Write and Close made on the Conn, with what each came to
NoConn == [write |-> FALSE, handle |-> "none", log |-> << >>]
NoPow == [fn |-> "none", a |-> 0, n |-> 0, result |-> 0, factor |-> 0, pc |-> "idle",
          a0 |-> 0, n0 |-> 0]
NoEnv == [ticks |-> 0, pushes |-> 0, hookFaults |-> 0]
NoFrame == [pc |-> "idle", err |-> FALSE, saw |-> FALSE, todo |-> {}, trace |-> << >>,
            started |-> FALSE, faulted |-> "none"]

VARIABLES
    cfg,                \* the Server as New and its options built it
    runPc,              \* position of the goroutine that called Run
    runResult,          \* what Run returned: "none" (not yet), "nil", or the error
    runVia,             \* the branch Run returned from
    initPc,             \* position of the connectionInitHandle goroutine
    listenerPc,         \* position of the listener goroutine (the callback)
    listening,          \* the listener's serve call is in progress
    beforeFired,        \* OnStartBeforeEvent has been invoked
    finishFired,        \* OnStartFinishEvent has been invoked
    isShutdown,         \* Server.isShutdown
    initMessageChannel, \* Server.initMessageChannel
    gServer,            \* Server.gServer # nil
    messagePool,        \* Server.messagePool: "nil", "open", "closed"
    pool,               \* the pool's free list and the number of envelopes it made
    conn,               \* the Conn of the one connection
    env,                \* what the environment did so far: timer fires, pushes, hook faults
    cost,               \* milliseconds each dispatch loop has spent on cur
    pow,                \* one call of maths.Pow or maths.PowInt64: its locals and position
    messageChannel,     \* Server.messageChannel: shard -> [buf, closed]
    closeChannelClosed, \* close(slf.closeChannel) was executed
    shut,               \* one Shutdown frame per caller
    loopPc,             \* position of each shard's dispatch loop
    cur,                \* the envelope each dispatch loop is dispatching
    fault,              \* the fault recovered for cur: "none", "error", "value"
    connPc,             \* position of the one connection's read loop
    sent,               \* packets the read loop has pushed
    triggers,           \* shutdown-triggering events so far
    faults,             \* handler invocations that raised a fault so far
    nextId,             \* identity of the next envelope
    released,           \* envelopes handed back to the pool
    effects,            \* counters of the release sequence's external effects
    hist,               \* history: per-shard enqueue and dispatch order, hook log
    crashed             \* an unrecovered fault ended the process

vars == << cfg, pow, env, cost, pool, conn, runPc, runResult, runVia, initPc, listenerPc, listening, beforeFired,
           finishFired, isShutdown, initMessageChannel, gServer, messagePool,
           messageChannel, closeChannelClosed, shut, loopPc, cur, fault, connPc,
           sent, triggers, faults, nextId, released, effects, hist, crashed >>

\* groups of variables, for UNCHANGED
startVars == << initPc, listenerPc, listening, beforeFired, finishFired >>
pipeVars == << initMessageChannel, gServer, messagePool, messageChannel >>
connVars == << connPc, sent, faults >>

\* ----------------------------------------------------------- construction
\* New(network, options...): core is 1 unless WithMultiCore raises it; the
\* event collaborator is nil only for a Server built without New.
\* The last two fields are the environment's budget for the run: the packets
\* the connection sends and the shutdown-triggering events.
\* supportMessageTypes is the map WithWebsocketMessageType builds (empty
\* without the option).
Config(n, c, m, e, t, x, p, g) ==
    [network |-> n, core |-> c, multiple |-> m, event |-> e, ticker |-> t, cross |-> x,
     supportMessageTypes |-> {}, autonomy |-> FALSE, packets |-> p, triggers |-> g,
     calls |-> 0, ticks |-> 0, pushes |-> 0, durations |-> {10}, hookCosts |-> {0}, hookFaults |-> 0]

\* The budget of envelopes the application pushes itself.
WithPushes(c, n) == [c EXCEPT !.pushes = n]

\* The milliseconds a handler may take (ds), the milliseconds the message-error
\* hook may take (hs), and the budget of hook invocations that raise a fault.
WithTimes(c, ds, hs, n) == [c EXCEPT !.durations = ds, !.hookCosts = hs, !.hookFaults = n]

\* WithTicker(size, autonomy) on the configuration c, and the budget of timer
\* callbacks that come due.
WithTicker(c, autonomy, n) == [c EXCEPT !.ticker = TRUE, !.autonomy = autonomy, !.ticks = n]

\* The budget of Write and Close calls the application makes on the Conn.
WithCalls(c, n) == [c EXCEPT !.calls = n]

\* WithWebsocketMessageType(messageTypes...) on the configuration c
WithWebsocketMessageType(c, messageTypes) ==
    IF c.network # NetworkWebsocket THEN c
    ELSE [c EXCEPT !.supportMessageTypes =
            messageTypes \cap {WebsocketMessageTypeText, WebsocketMessageTypeBinary,
                               WebsocketMessageTypePing}]

Configs ==
    { Config(NetworkTcp, 1, m, TRUE, FALSE, FALSE, MaxPackets, MaxTriggers - 1) : m \in BOOLEAN }
    \cup { Config(NetworkTcp, 1, m, TRUE, FALSE, FALSE, MaxPackets - 1, MaxTriggers) :
             m \in BOOLEAN }
    \cup { Config(NetworkTcp, c, FALSE, TRUE, FALSE, FALSE, MaxPackets, 0) : c \in 2 .. MaxCore }
    \cup { Config(NetworkTcp, MaxCore, m, TRUE, FALSE, FALSE, MaxPackets - 1, MaxTriggers - 1) :
             m \in BOOLEAN }
    \cup { Config(NetworkTcp, MaxCore, FALSE, TRUE, FALSE, FALSE, 0, MaxTriggers),
           Config(NetworkTcp, 1, FALSE, TRUE, TRUE, TRUE, 0, MaxTriggers),
           Config(NetworkKcp, 1, FALSE, TRUE, FALSE, FALSE, MaxPackets, MaxTriggers - 1),
           Config(NetworkWebsocket, 1, FALSE, TRUE, FALSE, FALSE, MaxPackets, MaxTriggers - 1),
           WithWebsocketMessageType(
             Config(NetworkWebsocket, 1, FALSE, TRUE, FALSE, FALSE, MaxPackets, MaxTriggers - 1),
             {WebsocketMessageTypeBinary, WebsocketMessageTypePing}),
           WithCalls(Config(NetworkTcp, 1, FALSE, TRUE, FALSE, FALSE, 1, 0), MaxCalls),
           WithCalls(Config(NetworkWebsocket, 1, TRUE, TRUE, FALSE, FALSE, 1, 0), MaxCalls),
           Config(NetworkHttp, 1, FALSE, TRUE, FALSE, FALSE, 0, MaxTriggers),
           WithPushes(Config(NetworkTcp, 1, FALSE, TRUE, FALSE, FALSE, MaxPackets, 0), MaxPushes),
           WithPushes(Config(NetworkTcp, 1, FALSE, TRUE, FALSE, FALSE, 0, 1), MaxPushes),
           WithPushes(Config(NetworkTcp, 1, FALSE, TRUE, FALSE, FALSE, 1, 0), MaxPushes),
           WithTimes(Config(NetworkTcp, 1, FALSE, TRUE, FALSE, FALSE, MaxPackets, 0),
                     Durations, HookCosts, 0),
           WithTimes(Config(NetworkTcp, 1, FALSE, TRUE, FALSE, FALSE, MaxPackets, 1),
                     {10, 150}, {0}, MaxHookFaults),
           WithTicker(Config(NetworkTcp, 1, FALSE, TRUE, FALSE, FALSE, 0, 1), TRUE, MaxTicks),
           WithTicker(Config(NetworkTcp, 1, FALSE, TRUE, FALSE, FALSE, 0, 1), FALSE, MaxTicks),
           Config(NetworkGRPC, 1, FALSE, TRUE, TRUE, FALSE, 0, MaxTriggers),
           Config(Unsupported, 1, FALSE, TRUE, FALSE, FALSE, 0, MaxTriggers),
           Config(NetworkTcp, 1, FALSE, FALSE, FALSE, FALSE, 0, MaxTriggers) }

NoEffects == [ticker |-> 0, cross |-> 0, stops |-> 0, pool |-> 0, grpc |-> 0, http |-> 0]
MaxIds == MaxPackets + MaxTriggers + MaxTicks + MaxPushes
NoHist == [enq |-> [i \in Shards |-> << >>], disp |-> [i \in Shards |-> << >>],
           finished |-> [i \in Shards |-> 0], received |-> << >>,
           logged |-> [k \in 1 .. MaxIds |-> 0], frames |-> << >>, closed |-> 0,
           dirty |-> 0, ticks |-> << >>, inline |-> 0, log |-> << >>, calls |-> << >>,
           sendClosed |-> 0, getClosed |-> 0, releaseClosed |-> 0,
           elapsed |-> [k \in 1 .. MaxIds |-> 0], low |-> [k \in 1 .. MaxIds |-> << >>],
           tested |-> [k \in 1 .. MaxIds |-> "none"], rel |-> [k \in 1 .. MaxIds |-> 0]]

InitWith(C, P) ==
    /\ cfg \in C
    /\ runPc = "start"
    /\ runResult = "none"
    /\ runVia = "none"
    /\ initPc = "none"
    /\ listenerPc = "none"
    /\ listening = FALSE
    /\ beforeFired = FALSE
    /\ finishFired = FALSE
    /\ isShutdown = FALSE
    /\ initMessageChannel = FALSE
    /\ gServer = FALSE
    /\ messagePool = "nil"
    /\ pool = NoPool
    /\ conn = NoConn
    /\ pow = P
    /\ env = NoEnv
    /\ cost = [i \in Shards |-> 0]
    /\ messageChannel = << >>
    /\ closeChannelClosed = FALSE
    /\ shut = [c \in Callers |-> NoFrame]
    /\ loopPc = [i \in Shards |-> "none"]
    /\ cur = [i \in Shards |-> NoMsg]
    /\ fault = [i \in Shards |-> "none"]
    /\ connPc = "none"
    /\ sent = 0
    /\ triggers = 0
    /\ faults = 0
    /\ nextId = 1
    /\ released = {}
    /\ effects = NoEffects
    /\ hist = NoHist
    /\ crashed = FALSE

Init == InitWith(Configs, NoPow)

\* -------------------------------------------------------------------- Run
\* (mutant) Run does not test the event collaborator
RunErrorUnchecked(c, bound) ==
    IF c.network \in {NetworkGRPC, NetworkKcp} /\ ~bound THEN "ListenError"
    ELSE IF c.network \notin SupportedKinds THEN "ErrCanNotSupportNetwork"
    ELSE "nil"

\* The error Run returns before it starts anything ("nil": none): the missing
\* event collaborator, the failed bind of the RPC or reliable-UDP listener,
\* the network kind outside the switch.
RunError(c, bound) ==
    IF ~c.event THEN "ErrConstructed"
    ELSE IF c.network \in {NetworkGRPC, NetworkKcp} /\ ~bound THEN "ListenError"
    ELSE IF c.network \notin SupportedKinds THEN "ErrCanNotSupportNetwork"
    ELSE "nil"

\* Run up to the end of its switch: an error return, or the go statement of
\* the chosen network kind.
RunEnter ==
    /\ ~crashed
    /\ runPc = "start"
    /\ \E bound \in BOOLEAN :
         LET e == RunError(cfg, bound) IN
         /\ runPc' = IF e = "nil" THEN "finish" ELSE "returned"
         /\ runResult' = IF e = "nil" THEN "none" ELSE e
         /\ runVia' = IF e = "nil" THEN "none" ELSE "error"
         /\ initPc' = IF e = "nil" /\ cfg.network \in PipelineKinds THEN "flag" ELSE "none"
         /\ listenerPc' = IF e = "nil" /\ cfg.network \notin PipelineKinds
                          THEN "before" ELSE "none"
    /\ UNCHANGED << cfg, pow, env, cost, conn, pool, listening, beforeFired, finishFired, isShutdown, pipeVars,
                    closeChannelClosed, shut, loopPc, cur, fault, connVars, triggers,
                    nextId, released, effects, hist, crashed >>

\* OnStartFinishEvent, then either the blocking select or the return of the
\* 'multiple' mode.
RunFinish ==
    /\ ~crashed
    /\ runPc = "finish"
    /\ finishFired' = TRUE
    /\ runPc' = IF cfg.multiple THEN "returned" ELSE "wait"
    /\ runResult' = IF cfg.multiple THEN "nil" ELSE "none"
    /\ runVia' = IF cfg.multiple THEN "multiple" ELSE "none"
    /\ UNCHANGED << cfg, pow, env, cost, conn, pool, initPc, listenerPc, listening, beforeFired, isShutdown, pipeVars,
                    closeChannelClosed, shut, loopPc, cur, fault, connVars, triggers,
                    nextId, released, effects, hist, crashed >>

\* ------------------------------------------------------------- Shutdown
\* (mutant) the pool is closed before the shard queues
ShutdownStepsPoolFirst ==
    << "flag", "ticker", "cross", "check", "stop", "pool", "closeq", "uninit",
       "grpc", "http", "signal" >>

\* The statements of Shutdown in program order.  "check" is the test of
\* initMessageChannel that guards "stop" .. "uninit".
ShutdownSteps ==
    << "flag", "ticker", "cross", "check", "stop", "closeq", "pool", "uninit",
       "grpc", "http", "signal" >>

\* A statement whose guard the construction already decides is skipped.
Applicable(step) ==
    CASE step = "ticker" -> cfg.ticker
      [] step = "cross" -> cfg.cross
      [] step = "grpc" -> cfg.network = NetworkGRPC
      [] step = "http" -> cfg.network = NetworkHttp
      [] OTHER -> TRUE

StepIndex(step) == CHOOSE k \in 1 .. Len(ShutdownSteps) : ShutdownSteps[k] = step

RECURSIVE NextFrom(_)
NextFrom(k) ==
    IF k > Len(ShutdownSteps) THEN "done"
    ELSE IF Applicable(ShutdownSteps[k]) THEN ShutdownSteps[k]
    ELSE NextFrom(k + 1)

After(step) == NextFrom(StepIndex(step) + 1)
FirstStep == NextFrom(1)

\* The engine is running: connectionInitHandle has finished, the listener is
\* serving and Run is blocked in its select (or has returned, in the
\* 'multiple' mode).
Running ==
    /\ initPc = "done"
    /\ listening
    /\ runPc = "wait" \/ (cfg.multiple /\ runPc = "returned")

\* Shutdown(err) is entered by caller c; started: on a running engine.
Enter(c, err) ==
    [shut EXCEPT ![c] = [NoFrame EXCEPT !.pc = FirstStep, !.err = err,
                                        !.started = Running,
                                        !.faulted = shut[c].faulted]]

\* Shutdown returns to its caller: the dispatch loop goes on to the deferred
\* function of dispatchMessage, Run returns nil.
Return(c) ==
    /\ shut' = [shut EXCEPT ![c] = [NoFrame EXCEPT !.faulted = shut[c].faulted]]
    /\ loopPc' = IF c[1] = "loop" THEN [loopPc EXCEPT ![c[2]] = "deferred"] ELSE loopPc
    /\ runPc' = IF c = RunT THEN "returned" ELSE runPc
    /\ runResult' = IF c = RunT THEN "nil" ELSE runResult
    /\ runVia' = IF c = RunT THEN "signal" ELSE runVia
    /\ UNCHANGED << fault, crashed >>

\* A statement of Shutdown raises a fault: dispatchMessage recovers it (a
\* runtime error is an error value); in any other goroutine nothing does.
Panic(c, why) ==
    /\ shut' = [shut EXCEPT ![c].pc = IF c[1] = "loop" THEN "idle" ELSE "panicked",
                            ![c].faulted = why]
    /\ loopPc' = IF c[1] = "loop" THEN [loopPc EXCEPT ![c[2]] = "deferred"] ELSE loopPc
    /\ fault' = IF c[1] = "loop" THEN [fault EXCEPT ![c[2]] = "error"] ELSE fault
    /\ crashed' = (c[1] # "loop")
    /\ UNCHANGED << runPc, runResult, runVia >>

\* Statement step of c's Shutdown is over (executed, or skipped by its if).
Finish(c, step, executed) ==
    IF After(step) = "done" THEN Return(c)
    ELSE /\ shut' = [shut EXCEPT ![c].pc = After(step),
                                 ![c].trace = IF executed THEN Append(@, step) ELSE @]
         /\ UNCHANGED << loopPc, fault, runPc, runResult, runVia, crashed >>

At(c, step) == ~crashed /\ shut[c].pc = step

\* slf.isShutdown.Store(true)
ShutdownFlag(c) ==
    /\ At(c, "flag")
    /\ isShutdown' = TRUE
    /\ Finish(c, "flag", TRUE)
    /\ UNCHANGED << cfg, pow, env, cost, conn, pool, startVars, pipeVars, closeChannelClosed, cur, connVars,
                    triggers, nextId, released, effects, hist >>

\* slf.ticker.Release()
ShutdownTicker(c) ==
    /\ At(c, "ticker")
    /\ effects' = [effects EXCEPT !.ticker = @ + 1]
    /\ Finish(c, "ticker", TRUE)
    /\ UNCHANGED << cfg, pow, env, cost, conn, pool, startVars, isShutdown, pipeVars, closeChannelClosed, cur,
                    connVars, triggers, nextId, released, hist >>

\* cross.Release() of every cross-link
ShutdownCross(c) ==
    /\ At(c, "cross")
    /\ effects' = [effects EXCEPT !.cross = @ + 1]
    /\ Finish(c, "cross", TRUE)
    /\ UNCHANGED << cfg, pow, env, cost, conn, pool, startVars, isShutdown, pipeVars, closeChannelClosed, cur,
                    connVars, triggers, nextId, released, hist >>

\* if slf.initMessageChannel { ... }
ShutdownCheck(c) ==
    /\ At(c, "check")
    /\ IF initMessageChannel
       THEN /\ shut' = [shut EXCEPT ![c].pc = After("check"), ![c].saw = TRUE]
            /\ UNCHANGED << loopPc, fault, runPc, runResult, runVia, crashed >>
       ELSE Finish(c, "uninit", FALSE)
    /\ UNCHANGED << cfg, pow, env, cost, conn, pool, startVars, isShutdown, pipeVars, closeChannelClosed, cur,
                    connVars, triggers, nextId, released, effects, hist >>

\* The listeners gnet.Stop reaches: the ones gnet.Serve runs.  The accept loop
\* of kcp.ListenWithOptions and http.ListenAndServe of the WebSocket kind are
\* no gnet servers (gnet.Stop returns an error, which is logged).
StoppedByGnet(network) == network = NetworkTcp

\* if slf.gServer != nil { gnet.Stop(ctx, ...) }: a serving gnet.Serve returns
\* nil; a listener that is not serving yet is not stopped (an error is logged).
ShutdownStop(c) ==
    /\ At(c, "stop")
    /\ effects' = IF gServer THEN [effects EXCEPT !.stops = @ + 1] ELSE effects
    /\ listening' = IF gServer /\ StoppedByGnet(cfg.network) THEN FALSE ELSE listening
    /\ listenerPc' = IF gServer /\ StoppedByGnet(cfg.network) /\ listenerPc = "serving"
                     THEN "done" ELSE listenerPc
    /\ Finish(c, "stop", gServer)
    /\ UNCHANGED << cfg, pow, env, cost, conn, pool, initPc, beforeFired, finishFired, isShutdown, pipeVars,
                    closeChannelClosed, cur, connVars, triggers, nextId, released, hist >>

\* for _, messageChannel := range slf.messageChannel { close(messageChannel) },
\* one close per step, in the order the map range happens to take; closing a
\* closed channel is a fault.
ShutdownCloseQueue(c) ==
    /\ ~crashed
    /\ shut[c].pc \in {"closeq", "closing"}
    /\ LET todo == IF shut[c].pc = "closeq" THEN DOMAIN messageChannel ELSE shut[c].todo IN
       IF todo = {}
       THEN /\ Finish(c, "closeq", TRUE)
            /\ UNCHANGED messageChannel
       ELSE \E i \in todo :
              IF messageChannel[i].closed
              THEN /\ Panic(c, "queue")
                   /\ UNCHANGED messageChannel
              ELSE /\ messageChannel' = [messageChannel EXCEPT ![i].closed = TRUE]
                   /\ IF todo = {i}
                      THEN Finish(c, "closeq", TRUE)
                      ELSE /\ shut' = [shut EXCEPT ![c].pc = "closing", ![c].todo = todo \ {i}]
                           /\ UNCHANGED << loopPc, fault, runPc, runResult, runVia, crashed >>
    /\ UNCHANGED << cfg, pow, env, cost, conn, pool, startVars, isShutdown, initMessageChannel, gServer, messagePool,
                    closeChannelClosed, cur, connVars, triggers, nextId, released,
                    effects, hist >>

\* slf.messagePool.Close(): a nil pool is a nil dereference.
ShutdownPool(c) ==
    /\ At(c, "pool")
    /\ IF messagePool = "nil"
       THEN /\ Panic(c, "pool")
            /\ UNCHANGED << messagePool, pool, effects >>
       ELSE /\ messagePool' = "closed"
            /\ pool' = [pool EXCEPT !.free = {}]
            /\ effects' = [effects EXCEPT !.pool = @ + 1]
            /\ Finish(c, "pool", TRUE)
    /\ UNCHANGED << cfg, pow, env, cost, conn, startVars, isShutdown, initMessageChannel, gServer,
                    messageChannel, closeChannelClosed, cur, connVars, triggers, nextId,
                    released, hist >>

\* slf.initMessageChannel = false
ShutdownUninit(c) ==
    /\ At(c, "uninit")
    /\ initMessageChannel' = FALSE
    /\ Finish(c, "uninit", TRUE)
    /\ UNCHANGED << cfg, pow, env, cost, conn, pool, startVars, isShutdown, gServer, messagePool, messageChannel,
                    closeChannelClosed, cur, connVars, triggers, nextId, released,
                    effects, hist >>

\* slf.grpcServer.GracefulStop(): a running Serve returns nil.
ShutdownGrpc(c) ==
    /\ At(c, "grpc")
    /\ effects' = [effects EXCEPT !.grpc = @ + 1]
    /\ listening' = FALSE
    /\ listenerPc' = IF listenerPc = "serving" THEN "done" ELSE listenerPc
    /\ Finish(c, "grpc", TRUE)
    /\ UNCHANGED << cfg, pow, env, cost, conn, pool, initPc, beforeFired, finishFired, isShutdown, pipeVars,
                    closeChannelClosed, cur, connVars, triggers, nextId, released, hist >>

\* slf.httpServer.Shutdown(ctx): a running ListenAndServe returns
\* ErrServerClosed, which the listener goroutine reports as a failure.
ShutdownHttp(c) ==
    /\ At(c, "http")
    /\ effects' = [effects EXCEPT !.http = @ + 1]
    /\ listening' = FALSE
    /\ listenerPc' = IF listenerPc = "serving" THEN "report" ELSE listenerPc
    /\ Finish(c, "http", TRUE)
    /\ UNCHANGED << cfg, pow, env, cost, conn, pool, initPc, beforeFired, finishFired, isShutdown, pipeVars,
                    closeChannelClosed, cur, connVars, triggers, nextId, released, hist >>

\* err == nil: the normal termination is logged and Shutdown goes on.
ShutdownLog(c) ==
    /\ At(c, "signal")
    /\ ~shut[c].err
    /\ Finish(c, "signal", FALSE)
    /\ UNCHANGED << cfg, pow, env, cost, conn, pool, startVars, isShutdown, pipeVars, closeChannelClosed, cur,
                    connVars, triggers, nextId, released, effects, hist >>

\* err != nil: slf.closeChannel <- struct{}{} on the closed channel is a fault.
ShutdownSignalClosed(c) ==
    /\ At(c, "signal")
    /\ shut[c].err
    /\ closeChannelClosed
    /\ Panic(c, "signal")
    /\ UNCHANGED << cfg, pow, env, cost, conn, pool, startVars, isShutdown, pipeVars, closeChannelClosed, cur,
                    connVars, triggers, nextId, released, effects, hist >>

\* err != nil: the unbuffered send completes when Run's select receives it;
\* Run then closes the channel and returns nil (the two meet in one step).
RunClose(c) ==
    /\ At(c, "signal")
    /\ shut[c].err
    /\ ~closeChannelClosed
    /\ runPc = "wait"
    /\ closeChannelClosed' = TRUE
    /\ LET pc == After("signal") IN
       /\ shut' = [shut EXCEPT ![c] = IF pc = "done"
                                      THEN [NoFrame EXCEPT !.faulted = shut[c].faulted]
                                      ELSE [@ EXCEPT !.pc = pc, !.trace = Append(@, "signal")]]
       /\ loopPc' = IF pc = "done" /\ c[1] = "loop"
                    THEN [loopPc EXCEPT ![c[2]] = "deferred"] ELSE loopPc
    /\ runPc' = "returned"
    /\ runResult' = "nil"
    /\ runVia' = "close"
    /\ UNCHANGED << cfg, pow, env, cost, conn, pool, startVars, isShutdown, pipeVars, cur, fault, connVars,
                    triggers, nextId, released, effects, hist, crashed >>

\* An OS termination signal reaches Run's select: Run calls Shutdown(nil).
RunSignal ==
    /\ ~crashed
    /\ runPc = "wait"
    /\ triggers < cfg.triggers
    /\ triggers' = triggers + 1
    /\ runPc' = "shutdown"
    /\ shut' = Enter(RunT, FALSE)
    /\ UNCHANGED << cfg, pow, env, cost, conn, pool, runResult, runVia, startVars, isShutdown, pipeVars,
                    closeChannelClosed, loopPc, cur, fault, connVars, nextId, released,
                    effects, hist, crashed >>

\* Some goroutine of the embedding program calls Shutdown(err).
CallShutdown(err) ==
    /\ ~crashed
    /\ triggers < cfg.triggers
    /\ triggers' = triggers + 1
    /\ LET k == CHOOSE k \in 1 .. MaxTriggers :
                  /\ shut[ExtT(k)].pc = "idle"
                  /\ \A j \in 1 .. (k - 1) : shut[ExtT(j)].pc # "idle"
       IN shut' = Enter(ExtT(k), err)
    /\ UNCHANGED << cfg, pow, env, cost, conn, pool, runPc, runResult, runVia, startVars, isShutdown, pipeVars,
                    closeChannelClosed, loopPc, cur, fault, connVars, nextId, released,
                    effects, hist, crashed >>

\* ------------------------------------------------ connectionInitHandle
\* slf.initMessageChannel = true
InitFlag ==
    /\ ~crashed
    /\ initPc = "flag"
    /\ initMessageChannel' = TRUE
    /\ initPc' = "pool"
    /\ UNCHANGED << cfg, pow, env, cost, conn, pool, runPc, runResult, runVia, listenerPc, listening, beforeFired,
                    finishFired, isShutdown, gServer, messagePool, messageChannel,
                    closeChannelClosed, shut, loopPc, cur, fault, connVars, triggers,
                    nextId, released, effects, hist, crashed >>

\* slf.messagePool = synchronization.NewPool(...)
InitPool ==
    /\ ~crashed
    /\ initPc = "pool"
    /\ messagePool' = "open"
    /\ pool' = NoPool
    /\ initPc' = "chans"
    /\ UNCHANGED << cfg, pow, env, cost, conn, runPc, runResult, runVia, listenerPc, listening, beforeFired,
                    finishFired, isShutdown, initMessageChannel, gServer, messageChannel,
                    closeChannelClosed, shut, loopPc, cur, fault, connVars, triggers,
                    nextId, released, effects, hist, crashed >>

\* The shard queues the loop of connectionInitHandle makes: one per core.
NewChannels(core) == [i \in 0 .. (core - 1) |-> [buf |-> << >>, closed |-> FALSE]]

\* slf.messageChannel = map...; one channel per core; slf.gServer
InitChannels ==
    /\ ~crashed
    /\ initPc = "chans"
    /\ messageChannel' = NewChannels(cfg.core)
    /\ gServer' = (cfg.network \notin {NetworkHttp, NetworkWebsocket})
    /\ initPc' = "callback"
    /\ UNCHANGED << cfg, pow, env, cost, conn, pool, runPc, runResult, runVia, listenerPc, listening, beforeFired,
                    finishFired, isShutdown, initMessageChannel, messagePool,
                    closeChannelClosed, shut, loopPc, cur, fault, connVars, triggers,
                    nextId, released, effects, hist, crashed >>

\* go callback()
InitCallback ==
    /\ ~crashed
    /\ initPc = "callback"
    /\ listenerPc' = "before"
    /\ initPc' = "loops"
    /\ UNCHANGED << cfg, pow, env, cost, conn, pool, runPc, runResult, runVia, listening, beforeFired, finishFired,
                    isShutdown, pipeVars, closeChannelClosed, shut, loopPc, cur, fault,
                    connVars, triggers, nextId, released, effects, hist, crashed >>

\* one go func() { for message := range messageChannel {...} }() per queue
InitLoops ==
    /\ ~crashed
    /\ initPc = "loops"
    /\ loopPc' = [i \in Shards |-> IF i \in DOMAIN messageChannel THEN "idle" ELSE "none"]
    /\ initPc' = "done"
    /\ UNCHANGED << cfg, pow, env, cost, conn, pool, runPc, runResult, runVia, listenerPc, listening, beforeFired,
                    finishFired, isShutdown, pipeVars, closeChannelClosed, shut, cur,
                    fault, connVars, triggers, nextId, released, effects, hist, crashed >>

\* ----------------------------------------------------------- PushMessage
\* (mutant) no break: the envelope is sent on every queue
ShardChoicesAll(chans) == { DOMAIN chans }

\* for _, channel := range slf.messageChannel { channel <- msg; break }: the
\* queues one call may send on.  The range of a map starts at an entry the
\* language does not fix.
ShardChoices(chans) == { {i} : i \in DOMAIN chans }

\* The generator of the pool: &Message{}, a fresh object.
Generator(k) == [obj |-> k, id |-> 0, t |-> "none", attrs |-> << >>]

\* (mutant) the releaser leaves the attributes in place
ReleaserKeepsAttrs(data) == [data EXCEPT !.id = 0, !.t = "none"]

\* The releaser of the pool: data.t = 0; data.attrs = nil.
Releaser(data) == [data EXCEPT !.id = 0, !.t = "none", !.attrs = << >>]

\* messagePool.Get(): a released envelope, or a new one when none is free.
Get(q) == IF q.free # {} THEN q.free ELSE { Generator(q.made + 1) }
Taken(q, got) ==
    IF got \in q.free THEN [q EXCEPT !.free = @ \ {got}] ELSE [q EXCEPT !.made = @ + 1]
Clean(got) == got.t = "none" /\ got.attrs = << >>

\* messagePool.Release(msg): the releaser resets the envelope, which goes to
\* the free list; a closed pool keeps nothing.
Put(q, state, msg) ==
    IF state = "open" THEN [q EXCEPT !.free = @ \cup {Releaser(msg)}] ELSE q

\* (mutant) the stack is appended to the attributes of every kind
StampAttrsAlways(t, attrs) == Append(attrs, "stack")

\* msg.attrs = attrs; an Error envelope gets string(debug.Stack()) appended.
StampAttrs(t, attrs) == IF t = MessageTypeError THEN Append(attrs, "stack") ELSE attrs

\* (mutant) the send does not wait for room
HasRoomAlways(buf) == TRUE

\* channel <- msg on a buffered channel goes through when the buffer has
\* room, and waits otherwise.
HasRoom(buf) == Len(buf) < QueueCap

\* PushMessage(t, attrs...) with its outcome: Get on a nil pool and a send on
\* a closed queue are faults ("fault"); a send on a full queue waits; with no
\* queue at all the envelope is taken from the pool and left there ("done",
\* as after an enqueue).  h is the history with the caller's own note of the
\* outcome; the enqueue is noted in it.
PushMessage(t, attrs, outcome, h) ==
    IF messagePool = "nil"
    THEN outcome = "fault" /\ hist' = h /\ UNCHANGED << messageChannel, nextId, pool >>
    ELSE \E got \in Get(pool) :
      LET m == [obj |-> got.obj, id |-> nextId, t |-> t, attrs |-> StampAttrs(t, attrs)]
          hg == [h EXCEPT !.getClosed = IF messagePool = "closed" THEN @ + 1 ELSE @]
          hd == [hg EXCEPT !.dirty = IF Clean(got) THEN @ ELSE @ + 1]
      IN
      IF DOMAIN messageChannel = {}
      THEN /\ outcome = "done"
           /\ hist' = hd
           /\ nextId' = nextId + 1
           /\ pool' = Taken(pool, got)
           /\ UNCHANGED messageChannel
      ELSE \E S \in ShardChoices(messageChannel) :
           IF \E i \in S : messageChannel[i].closed
           THEN /\ outcome = "fault"
                /\ hist' = [hg EXCEPT !.sendClosed = @ + 1]
                /\ pool' = Taken(pool, got)
                /\ UNCHANGED << messageChannel, nextId >>
           ELSE /\ outcome = "done"
                /\ \A i \in S : HasRoom(messageChannel[i].buf)
                /\ messageChannel' =
                     [i \in DOMAIN messageChannel |->
                        IF i \in S THEN [messageChannel[i] EXCEPT !.buf = Append(@, m)]
                        ELSE messageChannel[i]]
                /\ nextId' = nextId + 1
                /\ pool' = Taken(pool, got)
                /\ hist' = [hd EXCEPT !.enq =
                     [i \in Shards |-> IF i \in S THEN Append(hd.enq[i], m.id)
                                       ELSE hd.enq[i]]]

\* ------------------------------------------------------------------ timer
\* Who runs a timer callback that came due.  WithTicker: `if !autonomy` the
\* ticker is built without a caller and runs its callbacks itself ("timer"),
\* else it is built with the caller that pushes them as Ticker envelopes
\* ("pipeline").
TickerRunner(autonomy) == IF ~autonomy THEN "timer" ELSE "pipeline"

\* A callback of the attached timer comes due (a released ticker has none).
\* With the caller of WithTicker it is pushed from the timer's goroutine,
\* where a fault of PushMessage may or may not be recovered.
TickerFire ==
    /\ ~crashed
    /\ cfg.ticker
    /\ effects.ticker = 0
    /\ env.ticks < cfg.ticks
    /\ env' = [env EXCEPT !.ticks = @ + 1]
    /\ IF TickerRunner(cfg.autonomy) = "timer"
       THEN /\ hist' = [hist EXCEPT !.ticks = Append(@, "timer")]
            /\ UNCHANGED << messageChannel, nextId, pool, crashed >>
       ELSE \E o \in {"done", "fault"} :
              /\ PushMessage(MessageTypeTicker, << "caller" >>, o,
                     [hist EXCEPT !.ticks = Append(@, IF o = "done" THEN "pushed"
                                                      ELSE "faulted")])
              /\ crashed' \in (IF o = "done" THEN {FALSE} ELSE BOOLEAN)
    /\ UNCHANGED << cfg, pow, cost, conn, runPc, runResult, runVia, startVars, isShutdown,
                    initMessageChannel, gServer, messagePool, closeChannelClosed, shut,
                    loopPc, cur, fault, connVars, triggers, released, effects >>

\* ------------------------------------------------------------ application
\* What the application pushes itself: an Error envelope with the directive
\* none or with one outside the enumeration, or an envelope of a kind outside
\* the enumeration.
AppPushes ==
    { << MessageTypeError, << "err", MessageErrorActionNone >> >>,
      << MessageTypeError, << "err", OtherAction >> >>,
      << OtherType, << "x" >> >> }

\* The application calls srv.PushMessage(t, attrs...) from a goroutine of its
\* own, which may or may not recover a fault of the call.
AppPush ==
    /\ ~crashed
    /\ runPc # "start"
    /\ env.pushes < cfg.pushes
    /\ env' = [env EXCEPT !.pushes = @ + 1]
    /\ \E p \in AppPushes :
         \E o \in {"done", "fault"} :
           /\ PushMessage(p[1], p[2], o, hist)
           /\ crashed' \in (IF o = "done" THEN {FALSE} ELSE BOOLEAN)
    /\ UNCHANGED << cfg, pow, cost, conn, runPc, runResult, runVia, startVars, isShutdown,
                    initMessageChannel, gServer, messagePool, closeChannelClosed, shut,
                    loopPc, cur, fault, connVars, triggers, released, effects >>

\* ---------------------------------------------------- transport listener
\* slf.OnStartBeforeEvent()
ListenerBefore ==
    /\ ~crashed
    /\ listenerPc = "before"
    /\ beforeFired' = TRUE
    /\ listenerPc' = "serve"
    /\ UNCHANGED << cfg, pow, env, cost, conn, pool, runPc, runResult, runVia, initPc, listening, finishFired, isShutdown,
                    pipeVars, closeChannelClosed, shut, loopPc, cur, fault, connVars,
                    triggers, nextId, released, effects, hist, crashed >>

\* The serve call (gnet.Serve, the accept loop, ListenAndServe, Serve) starts;
\* an HTTP or RPC server that was already shut down returns an error at once.
ListenerServe ==
    /\ ~crashed
    /\ listenerPc = "serve"
    /\ LET stopped == \/ cfg.network = NetworkHttp /\ effects.http > 0
                      \/ cfg.network = NetworkGRPC /\ effects.grpc > 0
       IN /\ listening' = ~stopped
          /\ listenerPc' = IF stopped THEN "report" ELSE "serving"
    /\ UNCHANGED << cfg, pow, env, cost, conn, pool, runPc, runResult, runVia, initPc, beforeFired, finishFired, isShutdown,
                    pipeVars, closeChannelClosed, shut, loopPc, cur, fault, connVars,
                    triggers, nextId, released, effects, hist, crashed >>

\* The serve call returns an error (the accept loop of the reliable-UDP kind
\* never returns).
ListenerFail ==
    /\ ~crashed
    /\ listenerPc = "serving"
    /\ cfg.network # NetworkKcp
    /\ triggers < cfg.triggers
    /\ triggers' = triggers + 1
    /\ listening' = FALSE
    /\ listenerPc' = "report"
    /\ UNCHANGED << cfg, pow, env, cost, conn, pool, runPc, runResult, runVia, initPc, beforeFired, finishFired, isShutdown,
                    pipeVars, closeChannelClosed, shut, loopPc, cur, fault, connVars,
                    nextId, released, effects, hist, crashed >>

\* slf.PushMessage(MessageTypeError, err, MessageErrorActionShutdown) in the
\* listener goroutine, which recovers nothing: a fault of PushMessage ends it
\* ("faulted") and the process.
ListenerReport ==
    /\ ~crashed
    /\ listenerPc = "report"
    /\ \E o \in {"done", "fault"} :
         /\ PushMessage(MessageTypeError, << "err", MessageErrorActionShutdown >>, o, hist)
         /\ listenerPc' = IF o = "done" THEN "reported" ELSE "faulted"
         /\ crashed' = (o = "fault")
    /\ UNCHANGED << cfg, pow, env, cost, conn, runPc, runResult, runVia, initPc, listening, beforeFired, finishFired,
                    isShutdown, initMessageChannel, gServer, messagePool,
                    closeChannelClosed, shut, loopPc, cur, fault, connVars, triggers,
                    released, effects >>

\* ------------------------------------------------------------------ Conn
\* newKcpConn, newGNetConn, newWebsocketConn: the write function is set.
newConn == [write |-> TRUE, handle |-> "open", log |-> << >>]

\* (mutant) Close leaves the write function in place
CloseKeepsWrite(c) == [c EXCEPT !.handle = "closed", !.log = Append(@, "close")]

\* Conn.Close: the transport handle is closed (the error of a second close is
\* dropped) and slf.write = nil.
Close(c) == [c EXCEPT !.handle = "closed", !.write = FALSE, !.log = Append(@, "close")]

\* Conn.Write: return slf.write(data).  Calling the nil function is a fault
\* ("fault") in the caller; the send primitive returns nil or its error, and
\* only its error on a closed handle.
Write(c) ==
    IF ~c.write THEN { [c EXCEPT !.log = Append(@, "fault")] }
    ELSE { [c EXCEPT !.log = Append(@, r)] :
             r \in IF c.handle = "open" THEN {"sent", "error"} ELSE {"error"} }

\* The application calls conn.Close().
ConnClose ==
    /\ ~crashed
    /\ conn.handle # "none"
    /\ Len(conn.log) < cfg.calls
    /\ conn' = Close(conn)
    /\ UNCHANGED << cfg, pow, env, cost, pool, runPc, runResult, runVia, startVars, isShutdown, pipeVars,
                    closeChannelClosed, shut, loopPc, cur, fault, connVars, triggers,
                    nextId, released, effects, hist, crashed >>

\* The application calls conn.Write(data).
ConnWrite ==
    /\ ~crashed
    /\ conn.handle # "none"
    /\ Len(conn.log) < cfg.calls
    /\ conn' \in Write(conn)
    /\ UNCHANGED << cfg, pow, env, cost, pool, runPc, runResult, runVia, startVars, isShutdown, pipeVars,
                    closeChannelClosed, shut, loopPc, cur, fault, connVars, triggers,
                    nextId, released, effects, hist, crashed >>

\* The read of a closed transport handle returns an error: the read loop ends
\* and the connection-closed hook fires.
ConnReadError ==
    /\ ~crashed
    /\ connPc = "open"
    /\ conn.handle = "closed"
    /\ connPc' = "closed"
    /\ hist' = [hist EXCEPT !.frames = Append(@, [packet |-> 0, mt |-> 0, out |-> "readerr"]),
                             !.closed = @ + 1]
    /\ UNCHANGED << sent, faults >>
    /\ UNCHANGED << cfg, pow, env, cost, conn, pool, runPc, runResult, runVia, startVars, isShutdown,
                    pipeVars, closeChannelClosed, shut, loopPc, cur, fault, triggers,
                    nextId, released, effects, crashed >>

\* ------------------------------------------------- connection read loop
\* The listener accepts the connection: OnConnectionOpenedEvent(conn).
Accept ==
    /\ ~crashed
    /\ listening
    /\ connPc = "none"
    /\ connPc' = "open"
    /\ conn' = newConn
    /\ UNCHANGED << cfg, pow, env, cost, pool, runPc, runResult, runVia, startVars, isShutdown, pipeVars,
                    closeChannelClosed, shut, loopPc, cur, fault, sent, faults, triggers,
                    nextId, released, effects, hist, crashed >>

\* (mutant) the allow-list is applied even when it is empty
AllowedStrict(supports, messageType) == messageType \in supports

\* len(slf.supportMessageTypes) > 0 && !slf.supportMessageTypes[messageType]
\* rejects the frame.
Allowed(supports, messageType) == supports = {} \/ messageType \in supports

\* The attributes the read loop of a network kind pushes for packet k read as
\* a frame of type messageType.
PacketAttrs(network, k, messageType) ==
    IF network = NetworkWebsocket THEN << TheConn, k, messageType >> ELSE << TheConn, k >>

\* The read loop reads packet sent + 1 and pushes it.  The WebSocket loop
\* raises ErrWebsocketIllegalMessageType for a frame type outside the
\* allow-list.  The reliable-UDP and WebSocket read loops recover a fault (the
\* connection-closed hook fires and the loop ends); nothing recovers a fault
\* of PushMessage under gnet.
ConnRead ==
    /\ ~crashed
    /\ connPc = "open"
    /\ conn.handle = "open"
    /\ sent < cfg.packets
    /\ \E mt \in (IF cfg.network = NetworkWebsocket THEN FrameTypes ELSE {0}) :
         LET frame(out) == [packet |-> sent + 1, mt |-> mt, out |-> out] IN
         IF cfg.network = NetworkWebsocket /\ ~Allowed(cfg.supportMessageTypes, mt)
         THEN /\ connPc' = "closed"
              /\ hist' = [hist EXCEPT !.frames = Append(@, frame("rejected")),
                                       !.closed = @ + 1]
              /\ UNCHANGED << sent, crashed, messageChannel, nextId, pool >>
         ELSE \E o \in {"done", "fault"} :
              /\ PushMessage(MessageTypePacket, PacketAttrs(cfg.network, sent + 1, mt), o,
                     IF o = "done"
                     THEN [hist EXCEPT !.frames = Append(@, frame("pushed"))]
                     ELSE [hist EXCEPT
                             !.frames = Append(@, frame("faulted")),
                             !.closed = IF cfg.network = NetworkTcp THEN @ ELSE @ + 1])
              /\ sent' = IF o = "done" THEN sent + 1 ELSE sent
              /\ connPc' = IF o = "done" THEN connPc ELSE "closed"
              /\ crashed' = (o = "fault" /\ cfg.network = NetworkTcp)
    /\ UNCHANGED faults
    /\ UNCHANGED << cfg, pow, env, cost, conn, runPc, runResult, runVia, startVars, isShutdown, initMessageChannel,
                    gServer, messagePool, closeChannelClosed, shut, loopPc, cur, fault,
                    triggers, released, effects >>

\* -------------------------------------------------------- dispatch loop
\* (mutant) the receive takes the newest envelope of the queue
ReceiveNewest(buf) == buf[Len(buf)]

\* for message := range messageChannel: the oldest envelope of the queue.
Receive(buf) == Head(buf)
Rest(buf) == Tail(buf)

LoopReceive(i) ==
    /\ ~crashed
    /\ loopPc[i] = "idle"
    /\ i \in DOMAIN messageChannel
    /\ messageChannel[i].buf # << >>
    /\ cur' = [cur EXCEPT ![i] = Receive(messageChannel[i].buf)]
    /\ messageChannel' = [messageChannel EXCEPT ![i].buf = Rest(@)]
    /\ loopPc' = [loopPc EXCEPT ![i] = "handler"]
    /\ hist' = [hist EXCEPT !.disp[i] = Append(@, cur'[i].id)]
    /\ UNCHANGED << cfg, pow, env, cost, conn, pool, runPc, runResult, runVia, startVars, isShutdown, initMessageChannel,
                    gServer, messagePool, closeChannelClosed, shut, fault, connVars,
                    triggers, nextId, released, effects, crashed >>

\* The range over a closed and drained queue ends: the goroutine exits.
LoopExit(i) ==
    /\ ~crashed
    /\ loopPc[i] = "idle"
    /\ i \in DOMAIN messageChannel
    /\ messageChannel[i].buf = << >>
    /\ messageChannel[i].closed
    /\ loopPc' = [loopPc EXCEPT ![i] = "exited"]
    /\ UNCHANGED << cfg, pow, env, cost, conn, pool, runPc, runResult, runVia, startVars, isShutdown, pipeVars,
                    closeChannelClosed, shut, cur, fault, connVars, triggers, nextId,
                    released, effects, hist, crashed >>

\* What the packet hook may be handed: the attribute of the envelope.  The
\* reliable-UDP read loop passes a slice of the one buffer it goes on reading
\* into, so the hook sees the packet or any later one the loop has read
\* (pushed, or read and not pushed yet).
Observed(m) ==
    IF cfg.network = NetworkKcp
    THEN { k \in 1 .. cfg.packets : m.attrs[2] <= k /\ k <= sent + 1 }
    ELSE { m.attrs[2] }

\* msg.t.deconstructPacket(msg.attrs...): conn, packet
deconstructPacket(attrs, packet) == << attrs[1], packet >>

\* msg.t.deconstructWebSocketPacket(msg.attrs...): conn, packet, messageType
deconstructWebSocketPacket(attrs, packet) == << attrs[1], packet, attrs[3] >>

\* msg.t.deconstructError(msg.attrs...): err, action, stack
deconstructError(attrs) == [err |-> attrs[1], action |-> attrs[2], stack |-> attrs[3]]

\* case MessageTypePacket: the packet-received hook runs; it may raise a
\* fault carrying an error value or any other value.
HandlePacket(i) ==
    /\ ~crashed
    /\ loopPc[i] = "handler"
    /\ \E d \in cfg.durations : cost' = [cost EXCEPT ![i] = d]
    /\ cur[i].t = MessageTypePacket
    /\ \E f \in {"none", "error", "value"}, seen \in Observed(cur[i]) :
         /\ hist' = [hist EXCEPT !.received = Append(@,
                        IF cfg.network = NetworkWebsocket
                        THEN deconstructWebSocketPacket(cur[i].attrs, seen)
                        ELSE deconstructPacket(cur[i].attrs, seen))]
         /\ f # "none" => faults < MaxFaults
         /\ fault' = [fault EXCEPT ![i] = f]
         /\ faults' = IF f = "none" THEN faults ELSE faults + 1
    /\ loopPc' = [loopPc EXCEPT ![i] = "deferred"]
    /\ UNCHANGED << cfg, pow, env, conn, pool, runPc, runResult, runVia, startVars, isShutdown, pipeVars,
                    closeChannelClosed, shut, cur, connPc, sent, triggers, nextId,
                    released, effects, crashed >>

\* msg.t.deconstructTicker(msg.attrs...): caller
deconstructTicker(attrs) == attrs[1]

\* case MessageTypeTicker: caller() runs in the dispatch loop; it may raise a
\* fault.
HandleTicker(i) ==
    /\ ~crashed
    /\ loopPc[i] = "handler"
    /\ \E d \in cfg.durations : cost' = [cost EXCEPT ![i] = d]
    /\ cur[i].t = MessageTypeTicker
    /\ deconstructTicker(cur[i].attrs) = "caller"
    /\ \E f \in {"none", "error", "value"} :
         /\ f # "none" => faults < MaxFaults
         /\ fault' = [fault EXCEPT ![i] = f]
         /\ faults' = IF f = "none" THEN faults ELSE faults + 1
    /\ hist' = [hist EXCEPT !.inline = @ + 1]
    /\ loopPc' = [loopPc EXCEPT ![i] = "deferred"]
    /\ UNCHANGED << cfg, pow, env, conn, pool, runPc, runResult, runVia, startVars, isShutdown,
                    pipeVars, closeChannelClosed, shut, cur, connPc, sent, triggers,
                    nextId, released, effects, crashed >>

\* case MessageTypeError: MessageErrorActionNone logs the error with its
\* stack, MessageErrorActionShutdown calls slf.Shutdown(err, stack), any other
\* directive logs a warning.
HandleError(i) ==
    /\ ~crashed
    /\ loopPc[i] = "handler"
    /\ \E d \in cfg.durations : cost' = [cost EXCEPT ![i] = d]
    /\ cur[i].t = MessageTypeError
    /\ LET e == deconstructError(cur[i].attrs) IN
       IF e.action = MessageErrorActionShutdown
       THEN /\ shut' = Enter(LoopT(i), TRUE)
            /\ loopPc' = [loopPc EXCEPT ![i] = "shutdown"]
            /\ hist' = [hist EXCEPT !.calls = Append(@, << e.err, e.stack >>)]
       ELSE /\ hist' = [hist EXCEPT !.log = Append(@,
                          IF e.action = MessageErrorActionNone
                          THEN << "error", e.err, e.stack >> ELSE << "warn", e.action >>)]
            /\ loopPc' = [loopPc EXCEPT ![i] = "deferred"]
            /\ UNCHANGED shut
    /\ UNCHANGED << cfg, pow, env, conn, pool, runPc, runResult, runVia, startVars, isShutdown, pipeVars,
                    closeChannelClosed, cur, fault, connVars, triggers, nextId, released,
                    effects, crashed >>

\* default: log.Warn for a kind outside the switch.
HandleDefault(i) ==
    /\ ~crashed
    /\ loopPc[i] = "handler"
    /\ \E d \in cfg.durations : cost' = [cost EXCEPT ![i] = d]
    /\ cur[i].t \notin {MessageTypePacket, MessageTypeError, MessageTypeTicker}
    /\ hist' = [hist EXCEPT !.log = Append(@, << "warn", cur[i].t >>)]
    /\ loopPc' = [loopPc EXCEPT ![i] = "deferred"]
    /\ UNCHANGED << cfg, pow, env, conn, pool, runPc, runResult, runVia, startVars, isShutdown, pipeVars,
                    closeChannelClosed, shut, cur, fault, connVars, triggers, nextId,
                    released, effects, crashed >>

\* (mutant) no recover: a fault leaves dispatchMessage and ends the goroutine
AfterDeferredUnrecovered(f, down) ==
    IF f # "none" THEN "exited" ELSE IF down THEN "idle" ELSE "release"

\* (mutant) the envelope is released whatever the shutdown flag says
AfterDeferredAlwaysRelease(f, down) == "release"

\* Where the dispatch loop is after the deferred function's recover and test of
\* the shutdown flag: recover() stops every fault f, so the loop goes on, to
\* the release of the envelope unless the flag is set.
AfterDeferred(f, down) == IF down THEN "idle" ELSE "release"

\* (mutant) the cost is the time of the handler alone
MeasuredBeforeRecovery(spent, recovery) == spent

\* cost := time.Since(present), taken after the recover block: the time of
\* the handler and of the recovery (the log and the message-error hook).
Measured(spent, recovery) == spent + recovery

\* cost > time.Millisecond*100
LowExec(c) == c > LowExecThreshold

\* The deferred function up to its test of the shutdown flag.  A recovered
\* fault is logged and handed to the message-error hook when it is an error;
\* then the cost is measured and the low-latency hook invoked when it is over
\* the threshold; then the flag is tested.  Both hooks run in the deferred
\* function itself, after recover(): a fault one of them raises (hf) is
\* recovered by nothing, leaves the rest of the function undone and ends the
\* goroutine and the process.
Deferred(i) ==
    /\ ~crashed
    /\ loopPc[i] = "deferred"
    /\ \E r \in (IF fault[i] = "error" THEN cfg.hookCosts ELSE {0}),
          hf \in {"none", "error", "lowexec"} :
         LET id == cur[i].id
             c == Measured(cost[i], r)
             next == IF hf # "none" THEN "faulted" ELSE AfterDeferred(fault[i], isShutdown)
             over == next \notin {"release", "faulted"}
         IN
         /\ hf = "error" => fault[i] = "error"
         /\ hf = "lowexec" => LowExec(c)
         /\ hf # "none" => env.hookFaults < cfg.hookFaults
         /\ env' = [env EXCEPT !.hookFaults = IF hf = "none" THEN @ ELSE @ + 1]
         /\ hist' = [hist EXCEPT
                       !.logged[id] = IF fault[i] # "none" THEN @ + 1 ELSE @,
                       !.elapsed[id] = IF hf = "error" THEN @ ELSE cost[i] + r,
                       !.low[id] = IF hf # "error" /\ LowExec(c) THEN Append(@, c) ELSE @,
                       !.tested[id] = IF hf # "none" THEN @
                                      ELSE IF isShutdown THEN "set" ELSE "unset",
                       !.finished[i] = IF over THEN @ + 1 ELSE @]
         /\ loopPc' = [loopPc EXCEPT ![i] = next]
         /\ crashed' = (hf # "none")
         /\ cur' = IF over THEN [cur EXCEPT ![i] = NoMsg] ELSE cur
         /\ cost' = IF over THEN [cost EXCEPT ![i] = 0] ELSE cost
    /\ fault' = [fault EXCEPT ![i] = "none"]
    /\ UNCHANGED << cfg, pow, conn, pool, runPc, runResult, runVia, startVars, isShutdown, pipeVars,
                    closeChannelClosed, shut, connVars, triggers, nextId, released,
                    effects >>

\* slf.messagePool.Release(msg)
Release(i) ==
    /\ ~crashed
    /\ loopPc[i] = "release"
    /\ released' = released \cup {cur[i].id}
    /\ pool' = Put(pool, messagePool, cur[i])
    /\ hist' = [hist EXCEPT !.finished[i] = @ + 1, !.rel[cur[i].id] = @ + 1,
                             !.releaseClosed = IF messagePool = "closed" THEN @ + 1 ELSE @]
    /\ loopPc' = [loopPc EXCEPT ![i] = "idle"]
    /\ cur' = [cur EXCEPT ![i] = NoMsg]
    /\ cost' = [cost EXCEPT ![i] = 0]
    /\ UNCHANGED << cfg, pow, env, conn, runPc, runResult, runVia, startVars, isShutdown, pipeVars,
                    closeChannelClosed, shut, fault, connVars, triggers, nextId,
                    effects, crashed >>

\* ------------------------------------------------------ specification
Next ==
    \/ RunEnter
    \/ RunFinish
    \/ RunSignal
    \/ \E e \in BOOLEAN : CallShutdown(e)
    \/ \E c \in Callers : RunClose(c)
    \/ \E c \in Callers : ShutdownFlag(c)
    \/ \E c \in Callers : ShutdownTicker(c)
    \/ \E c \in Callers : ShutdownCross(c)
    \/ \E c \in Callers : ShutdownCheck(c)
    \/ \E c \in Callers : ShutdownStop(c)
    \/ \E c \in Callers : ShutdownCloseQueue(c)
    \/ \E c \in Callers : ShutdownPool(c)
    \/ \E c \in Callers : ShutdownUninit(c)
    \/ \E c \in Callers : ShutdownGrpc(c)
    \/ \E c \in Callers : ShutdownHttp(c)
    \/ \E c \in Callers : ShutdownLog(c)
    \/ \E c \in Callers : ShutdownSignalClosed(c)
    \/ InitFlag
    \/ InitPool
    \/ InitChannels
    \/ InitCallback
    \/ InitLoops
    \/ ListenerBefore
    \/ ListenerServe
    \/ ListenerFail
    \/ ListenerReport
    \/ Accept
    \/ ConnClose
    \/ ConnWrite
    \/ ConnReadError
    \/ ConnRead
    \/ \E i \in Shards : LoopReceive(i)
    \/ \E i \in Shards : LoopExit(i)
    \/ \E i \in Shards : HandlePacket(i)
    \/ \E i \in Shards : HandleError(i)
    \/ \E i \in Shards : HandleTicker(i)
    \/ \E i \in Shards : HandleDefault(i)
    \/ TickerFire
    \/ AppPush
    \/ \E i \in Shards : Deferred(i)
    \/ \E i \in Shards : Release(i)

Spec == Init /\ [][Next]_vars

\* ------------------------------------------------------------ maths.Pow
\* A value as a signed integer of IntBits bits holds it (two's complement).
Wrap(x) == ((x + 2 ^ (IntBits - 1)) % (2 ^ IntBits)) - 2 ^ (IntBits - 1)

\* n & 1 != 0, and n >> 1 (the arithmetic shift of a signed integer: the
\* floor of the half, so that -1 >> 1 = -1)
Odd(n) == n % 2 = 1
Shr(n) == n \div 2

\* The calls that are made: Pow(a, n) and PowInt64(a, n).
PowCalls ==
    { [NoPow EXCEPT !.fn = f, !.a = a, !.n = n, !.a0 = a, !.n0 = n, !.pc = "call"] :
        f \in {"Pow", "PowInt64"}, a \in (0 - MaxBase) .. MaxBase, n \in (0 - MaxExp) .. MaxExp }

\* The three early returns, or result = 1 and factor = a before the loop.
PowEnter ==
    /\ pow.pc = "call"
    /\ pow' = IF pow.a = 0 THEN [pow EXCEPT !.pc = "done", !.result = 0]
              ELSE IF pow.n = 0 THEN [pow EXCEPT !.pc = "done", !.result = 1]
              ELSE IF pow.n = 1 THEN [pow EXCEPT !.pc = "done", !.result = pow.a]
              ELSE [pow EXCEPT !.pc = "loop", !.result = 1, !.factor = pow.a]
    /\ UNCHANGED << cfg, env, cost, pool, conn, runPc, runResult, runVia, startVars,
                    isShutdown, pipeVars, closeChannelClosed, shut, loopPc, cur, fault,
                    connVars, triggers, nextId, released, effects, hist, crashed >>

\* One iteration of `for n != 0`.
PowLoop ==
    /\ pow.pc = "loop"
    /\ pow.n # 0
    /\ pow' = [pow EXCEPT
                 !.result = IF Odd(pow.n) THEN Wrap(@ * pow.factor) ELSE @,
                 !.factor = Wrap(@ * @),
                 !.n = Shr(@)]
    /\ UNCHANGED << cfg, env, cost, pool, conn, runPc, runResult, runVia, startVars,
                    isShutdown, pipeVars, closeChannelClosed, shut, loopPc, cur, fault,
                    connVars, triggers, nextId, released, effects, hist, crashed >>

\* The loop ends on n == 0: return result.
PowReturn ==
    /\ pow.pc = "loop"
    /\ pow.n = 0
    /\ pow' = [pow EXCEPT !.pc = "done"]
    /\ UNCHANGED << cfg, env, cost, pool, conn, runPc, runResult, runVia, startVars,
                    isShutdown, pipeVars, closeChannelClosed, shut, loopPc, cur, fault,
                    connVars, triggers, nextId, released, effects, hist, crashed >>

PowInit == \E P \in PowCalls : InitWith({Config(Unsupported, 1, FALSE, TRUE, FALSE, FALSE, 0, 0)}, P)
PowNext == PowEnter \/ PowLoop \/ PowReturn
PowSpec == PowInit /\ [][PowNext]_vars

\* ================================================================ claims
IsPrefix(s, t) == Len(s) <= Len(t) /\ \A k \in 1 .. Len(s) : s[k] = t[k]
InDispatch(i) == loopPc[i] \in {"handler", "shutdown", "deferred", "release", "faulted"}
Active(c) == shut[c].pc # "idle"

\* C1: the envelopes a shard's dispatch loop has taken are, in order, the
\* first envelopes enqueued onto that shard, and at most one of them is still
\* being dispatched (every earlier one has finished).
C1_ShardFifo ==
    \A i \in Shards :
      /\ IsPrefix(hist.disp[i], hist.enq[i])
      /\ Len(hist.disp[i]) = hist.finished[i] + (IF InDispatch(i) THEN 1 ELSE 0)

\* Two envelopes of one shard have been dispatched to the end, one after the other.
C1_Witness == \E i \in Shards : Len(hist.enq[i]) >= 2 /\ hist.finished[i] >= 2

\* C2: a fault of a handler is recovered inside dispatchMessage (the step
\* that raises it leads to the deferred function and ends no goroutine), it
\* is logged once for its envelope, the loop then goes on to its next
\* envelope unless a hook of the recovery raises a fault of its own, and a
\* loop exits only on a closed and drained queue.
C2_FaultIsolated ==
    [][\A i \in Shards :
         /\ (loopPc[i] = "handler" /\ fault'[i] # "none")
              => (loopPc'[i] = "deferred" /\ crashed' = crashed)
         /\ (/\ loopPc[i] = "deferred" /\ loopPc'[i] # "deferred" /\ fault[i] # "none"
             /\ env'.hookFaults = env.hookFaults)
              => /\ loopPc'[i] \in {"idle", "release"}
                 /\ crashed' = crashed
                 /\ hist'.logged[cur[i].id] = 1
         /\ (loopPc[i] # "exited" /\ loopPc'[i] = "exited")
              => (messageChannel[i].closed /\ messageChannel[i].buf = << >>)
         /\ \A k \in 1 .. MaxIds : hist'.logged[k] <= 1]_vars

\* The first envelope of a shard raised a fault that was logged, and the
\* shard's second envelope was dispatched to the end after it.
C2_Witness ==
    \E i \in Shards :
      /\ Len(hist.disp[i]) >= 2
      /\ hist.logged[hist.disp[i][1]] = 1
      /\ hist.finished[i] >= 2
      /\ loopPc[i] = "idle"

\* C3 (as claimed): with two Shutdown calls inside the release sequence of an
\* initialized pipeline at once, no close of a closed queue faults and the
\* timer, the cross-links and the pool are released once.
Overlap ==
    \E a, b \in Callers :
      /\ a # b
      /\ Active(a) /\ shut[a].started /\ shut[a].saw
      /\ Active(b) /\ shut[b].started /\ shut[b].saw
C3_ShutdownOnce ==
    Overlap =>
      /\ \A c \in Callers : shut[c].faulted # "queue"
      /\ effects.ticker <= 1 /\ effects.cross <= 1 /\ effects.pool <= 1

\* C4 (as claimed): on a running stream engine with two shards the packet
\* hook has observed the payloads 1, 2, ... in the order they were pushed.
SendOrder == [k \in 1 .. MaxPackets |-> << TheConn, k >>]
C4_InOrder ==
    (cfg.network = NetworkTcp /\ cfg.core = 2 /\ ~isShutdown /\ ~crashed)
      => IsPrefix(hist.received, SendOrder)

\* C5 (as claimed): no envelope is ever enqueued onto a shard other than 0.
C5_AlwaysShardZero == \A i \in Shards \ {0} : hist.enq[i] = << >>

\* C5 (amended): a PushMessage that enqueues its envelope enqueues it onto
\* exactly one of the core shard queues and leaves every other queue alone.
C5_OneShard ==
    [][(hist'.enq # hist.enq) =>
         \E i \in 0 .. (cfg.core - 1) :
           /\ hist'.enq[i] = Append(hist.enq[i], nextId)
           /\ Len(messageChannel'[i].buf) = Len(messageChannel[i].buf) + 1
           /\ \A j \in Shards \ {i} :
                /\ hist'.enq[j] = hist.enq[j]
                /\ j \in DOMAIN messageChannel => messageChannel'[j] = messageChannel[j]]_vars

\* Envelopes have been enqueued onto shard 0 and onto another shard.
C5_Witness == hist.enq[0] # << >> /\ \E i \in Shards \ {0} : hist.enq[i] # << >>

\* C6 (as claimed): no dispatch loop is left waiting for good inside the
\* dispatch of one envelope while its closed queue still holds envelopes.
\* A loop inside Shutdown(err) at the send on closeChannel waits for good once
\* Run has returned without closing the channel: nothing receives any more.
Stranded(i) ==
    /\ ~crashed
    /\ loopPc[i] = "shutdown"
    /\ shut[LoopT(i)].pc = "signal"
    /\ runPc = "returned"
    /\ ~closeChannelClosed
C6_DrainAndExit ==
    \A i \in Shards :
      (i \in DOMAIN messageChannel /\ messageChannel[i].closed /\ Stranded(i))
        => messageChannel[i].buf = << >>

\* C7: the statements one Shutdown call has executed follow the claimed
\* order, none that applies is left out before a later one (so a call that
\* is at the close signal has executed all of them), the pipeline statements
\* run exactly when the pipeline was seen initialized, and no queue and no
\* pool is closed while the shutdown flag is unset.
ClaimedOrder ==
    << "flag", "ticker", "cross", "stop", "closeq", "pool", "uninit", "grpc", "http",
       "signal" >>
Rank(step) == CHOOSE k \in 1 .. Len(ClaimedOrder) : ClaimedOrder[k] = step
PcRank(pc) ==
    CASE pc = "check" -> Rank("stop")
      [] pc = "closing" -> Rank("closeq")
      [] OTHER -> Rank(pc)
Executed(c) == { shut[c].trace[k] : k \in 1 .. Len(shut[c].trace) }
Required(c, step) ==
    CASE step = "flag" -> TRUE
      [] step = "ticker" -> cfg.ticker
      [] step = "cross" -> cfg.cross
      [] step \in {"closeq", "pool", "uninit"} -> shut[c].saw
      [] step = "grpc" -> cfg.network = NetworkGRPC
      [] step = "http" -> cfg.network = NetworkHttp
      [] OTHER -> FALSE
C7_StepOrder ==
    /\ \A c \in Callers :
         LET t == shut[c].trace IN
         /\ \A j, k \in 1 .. Len(t) : j < k => Rank(t[j]) < Rank(t[k])
         /\ shut[c].pc \notin {"idle", "panicked"} =>
              \A k \in 1 .. (PcRank(shut[c].pc) - 1) :
                /\ Required(c, ClaimedOrder[k]) => ClaimedOrder[k] \in Executed(c)
                /\ ClaimedOrder[k] \in {"stop", "closeq", "pool", "uninit"} /\ ~shut[c].saw
                     => ClaimedOrder[k] \notin Executed(c)
    /\ (messagePool = "closed" \/ \E i \in DOMAIN messageChannel : messageChannel[i].closed)
         => isShutdown

\* A Shutdown(err) call on an engine with a timer and a cross-link stands at
\* the close signal after the whole release sequence.
C7_Witness ==
    \E c \in Callers :
      /\ shut[c].pc = "signal"
      /\ shut[c].err
      /\ shut[c].trace = << "flag", "ticker", "cross", "stop", "closeq", "pool", "uninit" >>

\* C8 (as claimed): a Shutdown(err) entered while Run is blocked in its
\* select on a running engine raises no fault on its way to the close signal.
C8_SignalAsserted ==
    (\A d \in Callers : Active(d) => shut[d].started) =>
      \A c \in Callers :
        (~cfg.multiple /\ Active(c) /\ shut[c].err) => shut[c].faulted = "none"

NothingStarted ==
    /\ initPc = "none" /\ listenerPc = "none" /\ ~listening
    /\ ~beforeFired /\ ~finishFired
    /\ messagePool = "nil" /\ messageChannel = << >>
    /\ \A i \in Shards : loopPc[i] = "none"

LoopsStarted == cfg.network \in PipelineKinds => initPc = "done"
C10_StartOrder ==
    /\ finishFired => beforeFired
    /\ (beforeFired \/ finishFired) => (listenerPc # "none" /\ LoopsStarted)

\* C11 (as claimed): the report of a failed serve call never raises a fault
\* in the listener goroutine.
C11_FailureRouted == listenerPc # "faulted"

\* C12 (as claimed): when a Shutdown(nil) entered on the running engine of a
\* pipeline kind has executed its whole release sequence (it stands at its
\* final log statement), the listener serves no more: nothing is accepted.
C12_ListenerReleased ==
    \A c \in Callers :
      (/\ cfg.network \in PipelineKinds
       /\ shut[c].pc = "signal" /\ ~shut[c].err /\ shut[c].started)
        => ~listening

\* C13: on a WebSocket engine a frame is rejected exactly when the allow-list
\* is not empty and does not hold its type (so never with an empty list); a
\* frame that is not pushed is the last one the read loop reads, and the
\* connection-closed hook has then fired once; every Packet envelope carries
\* the connection, the payload and the type of a frame that was let through,
\* and the packet hook has observed exactly those, in order.
WasPushed(f) == f.out = "pushed"
Forwarded(f) == << TheConn, f.packet, f.mt >>
C13_FrameFilter ==
    cfg.network = NetworkWebsocket =>
      LET fr == hist.frames
          allow == cfg.supportMessageTypes
          pushed == SelectSeq(fr, WasPushed)
      IN
      /\ \A k \in 1 .. Len(fr) :
           /\ fr[k].out = "rejected" <=> (allow # {} /\ fr[k].mt \notin allow)
           /\ fr[k].out # "pushed" => (k = Len(fr) /\ connPc = "closed")
      /\ hist.closed = IF \E k \in 1 .. Len(fr) : fr[k].out # "pushed" THEN 1 ELSE 0
      /\ \A i \in DOMAIN messageChannel :
           \A k \in 1 .. Len(messageChannel[i].buf) :
             LET m == messageChannel[i].buf[k] IN
             m.t = MessageTypePacket =>
               \E j \in 1 .. Len(pushed) : m.attrs = Forwarded(pushed[j])
      /\ Len(hist.received) <= Len(pushed)
      /\ \A k \in 1 .. Len(hist.received) : hist.received[k] = Forwarded(pushed[k])

\* With the allow-list {binary, ping} a binary frame has reached the packet
\* hook and a text frame has ended the read loop.
C13_Witness ==
    /\ cfg.supportMessageTypes = {WebsocketMessageTypeBinary, WebsocketMessageTypePing}
    /\ hist.received = << << TheConn, 1, WebsocketMessageTypeBinary >> >>
    /\ Len(hist.frames) = 2
    /\ hist.frames[2].mt = WebsocketMessageTypeText /\ hist.frames[2].out = "rejected"
    /\ hist.closed = 1

\* C14: no envelope object is held twice (in the shard queues and in the
\* dispatch loops together) or held while it is in the pool's free list, and
\* no Get has returned an envelope with a kind or with attributes.
InQueue ==
    { p \in (DOMAIN messageChannel) \X (1 .. MaxIds) : p[2] <= Len(messageChannel[p[1]].buf) }
QueuedObj(p) == messageChannel[p[1]].buf[p[2]].obj
Dispatching == { i \in Shards : cur[i].obj # 0 }
HeldObjs == { QueuedObj(p) : p \in InQueue } \cup { cur[i].obj : i \in Dispatching }
C14_PoolCorrect ==
    /\ \A p, q \in InQueue : p # q => QueuedObj(p) # QueuedObj(q)
    /\ \A i, j \in Dispatching : i # j => cur[i].obj # cur[j].obj
    /\ \A p \in InQueue : \A i \in Dispatching : QueuedObj(p) # cur[i].obj
    /\ \A f \in pool.free : f.obj \notin HeldObjs
    /\ hist.dirty = 0

\* A queued envelope is an object that was released and obtained again (more
\* envelopes were pushed than objects made).
C14_Witness ==
    /\ pool.made >= 1
    /\ \E p \in InQueue : messageChannel[p[1]].buf[p[2]].id > pool.made

\* C15: once Close was called on the connection the write function is
\* cleared and the handle closed, every later Write is a fault of the call
\* and none reaches the send primitive, and a later Close changes nothing.
C15_ClosedConn ==
    LET log == conn.log IN
    /\ (\E k \in 1 .. Len(log) : log[k] = "close") => (~conn.write /\ conn.handle = "closed")
    /\ \A j, k \in 1 .. Len(log) :
         (j < k /\ log[j] = "close") => log[k] \in {"close", "fault"}

\* Close, then a Write that failed, then a second Close.
C15_Witness == conn.log = << "close", "fault", "close" >>

\* C16: a timer attached with the autonomous flag set runs its callbacks
\* outside the shard pipeline and no Ticker envelope is ever enqueued for
\* them; attached with the flag unset, every callback that comes due is
\* pushed as a Ticker envelope (and run by a dispatch loop), never run by the
\* timer itself.
C16_TimerAttachment ==
    \A k \in 1 .. Len(hist.ticks) :
      IF cfg.autonomy THEN hist.ticks[k] = "timer" ELSE hist.ticks[k] # "timer"

\* C17: for every envelope whose dispatch came to the end of its fault
\* recovery, the low-latency hook was invoked once, with the time elapsed from
\* the start of the dispatch to that point, when that time is over 100 ms, and
\* not at all otherwise, after a normal return and after a recovered fault
\* alike; the hook is not invoked for an envelope before that point.
C17_LowExecHook ==
    \A k \in 1 .. MaxIds :
      IF hist.elapsed[k] > 100 THEN hist.low[k] = << hist.elapsed[k] >>
      ELSE hist.low[k] = << >>

\* A 150 ms handler fired the hook with 150 ms, and a 10 ms handler that
\* raised a recovered fault did not.
C17_Witness ==
    \E j, k \in 1 .. MaxIds :
      /\ hist.low[j] = << 150 >>
      /\ hist.elapsed[k] = 10 /\ hist.logged[k] = 1 /\ hist.low[k] = << >>

\* C18: no fault raised by a hook that a dispatch loop invokes, the
\* message-error hook and the low-latency hook included, ends that dispatch
\* loop or the process.
C18_HookFaultIsolated == \A i \in Shards : loopPc[i] # "faulted"

\* C19: an envelope is released to the pool at most once, only after its
\* handler and the fault recovery have finished and the shutdown flag was
\* found unset at that moment; it is not released before or while its
\* handler runs, nor when the flag was found set; and once its dispatch is
\* over it has been released exactly once if the flag was found unset.
Dispatched(k) == \E i \in Shards : \E n \in 1 .. Len(hist.disp[i]) : hist.disp[i][n] = k
Current(k) == \E i \in Shards : cur[i].id = k
C19_ReleaseOnce ==
    \A k \in 1 .. MaxIds :
      /\ hist.rel[k] <= 1
      /\ hist.rel[k] = 1 <=> (hist.tested[k] = "unset" /\ ~Current(k))
      /\ hist.tested[k] # "none" => Dispatched(k)
      /\ \A i \in Shards :
           (cur[i].id = k /\ loopPc[i] \in {"handler", "shutdown", "deferred", "faulted"})
             => hist.tested[k] = "none"

\* An envelope whose handler raised a fault was released after its dispatch,
\* and the dispatch of another, which found the flag set, is over without a
\* release.
C19_Witness ==
    \E j, k \in 1 .. MaxIds :
      /\ hist.rel[j] = 1 /\ hist.logged[j] = 1
      /\ hist.tested[k] = "set" /\ ~Current(k) /\ hist.rel[k] = 0

\* C20: the dispatch of an Error envelope with the directive none only logs
\* the error with the stack and leaves the lifecycle state, the shutdown flag,
\* the shard queues and the pool as they are; with the directive shutdown it
\* enters Shutdown with the envelope's error and the stack captured when it
\* was enqueued; with any other directive it only logs a warning and changes
\* no state.  The stack is the last attribute of every Error envelope and is
\* in no envelope of another kind.
Envelopes ==
    { cur[i] : i \in { j \in Shards : cur[j].t # "none" } }
    \cup UNION { { messageChannel[i].buf[n] : n \in 1 .. Len(messageChannel[i].buf) } :
                 i \in DOMAIN messageChannel }
\* the number of attributes the producers of a kind pass to PushMessage
Passed(t) ==
    CASE t = MessageTypePacket -> IF cfg.network = NetworkWebsocket THEN 3 ELSE 2
      [] t = MessageTypeError -> 2
      [] OTHER -> 1
Stamped ==
    \A m \in Envelopes :
      IF m.t = MessageTypeError
      THEN Len(m.attrs) = Passed(m.t) + 1 /\ m.attrs[Len(m.attrs)] = "stack"
      ELSE Len(m.attrs) = Passed(m.t)
Engine ==
    << runPc, runResult, startVars, isShutdown, pipeVars, pool, closeChannelClosed, shut >>
C20_ErrorEnvelope ==
    [][/\ Stamped'
       /\ \A i \in Shards :
            (loopPc[i] = "handler" /\ loopPc'[i] # "handler" /\ cur[i].t = MessageTypeError) =>
              LET action == cur[i].attrs[2] IN
              /\ action = MessageErrorActionNone =>
                   /\ UNCHANGED Engine
                   /\ hist'.log = Append(hist.log, << "error", cur[i].attrs[1], "stack" >>)
                   /\ hist'.calls = hist.calls
              /\ action = MessageErrorActionShutdown =>
                   /\ shut'[LoopT(i)].pc # "idle" /\ shut'[LoopT(i)].err
                   /\ hist'.calls = Append(hist.calls, << cur[i].attrs[1], "stack" >>)
              /\ action \notin {MessageErrorActionNone, MessageErrorActionShutdown} =>
                   /\ UNCHANGED Engine
                   /\ hist'.log = Append(hist.log, << "warn", action >>)
                   /\ hist'.calls = hist.calls]_vars

\* An Error envelope with the directive none was logged and one with the
\* directive shutdown has entered Shutdown with its error and stack.
C20_Witness ==
    /\ \E n \in 1 .. Len(hist.log) : hist.log[n] = << "error", "err", "stack" >>
    /\ hist.calls = << << "err", "stack" >> >>

\* C21: a shard queue never holds more than its capacity (a producer that
\* finds it full waits), what was enqueued onto a shard is, in order, what
\* its loop has taken followed by what the queue holds (nothing is dropped,
\* overwritten or reordered), and on a pipeline that is not being shut down
\* the read loop's push is blocked by nothing else: it can complete as soon
\* as a queue has room.
Ids(buf) == [n \in 1 .. Len(buf) |-> buf[n].id]
ReadPending ==
    ~crashed /\ connPc = "open" /\ conn.handle = "open" /\ sent < cfg.packets
C21_Backpressure ==
    /\ \A i \in DOMAIN messageChannel :
         /\ Len(messageChannel[i].buf) <= QueueCap
         /\ hist.enq[i] = hist.disp[i] \o Ids(messageChannel[i].buf)
    /\ (/\ ReadPending
        /\ messagePool = "open"
        /\ \A i \in DOMAIN messageChannel : ~messageChannel[i].closed
        /\ \E i \in DOMAIN messageChannel : Len(messageChannel[i].buf) < QueueCap)
         => ENABLED ConnRead

\* More envelopes than the queue holds were enqueued onto a shard, the queue
\* is full again after its loop took one, and the read loop waits with a
\* further packet.
C21_Witness ==
    \E i \in DOMAIN messageChannel :
      /\ Len(messageChannel[i].buf) = QueueCap
      /\ Len(hist.enq[i]) > QueueCap
      /\ ReadPending
      /\ ~ENABLED ConnRead

\* C22: the pool, the shard queues and the pipeline-initialized flag are
\* written by the provisioning step before anything can read them: once the
\* finish-start hook has fired or Run has returned nil, the pool and all the
\* shard queues of a pipeline kind exist, and no Shutdown is inside its
\* release sequence while the provisioning step is still writing.
Provisioning == initPc \in {"flag", "pool", "chans"}
C22_Provisioned ==
    cfg.network \in PipelineKinds =>
      /\ (finishFired \/ (runPc = "returned" /\ runResult = "nil")) =>
           (messagePool # "nil" /\ DOMAIN messageChannel = 0 .. (cfg.core - 1))
      /\ Provisioning => \A c \in Callers : ~Active(c)

\* C23: no PushMessage sends on a shard queue that Shutdown has closed.
C23_NoSendOnClosed == hist.sendClosed = 0

\* C24: the pool is not used after its Close: no Release by dispatchMessage
\* and no Get by PushMessage on a closed pool.
C24_NoUseAfterClose == hist.releaseClosed = 0 /\ hist.getClosed = 0

\* C25: no call of Shutdown is left waiting for good.  A call with an error
\* waits at its send on closeChannel for Run's select; it waits for good once
\* Run has left the select without closing the channel (Run has returned, or
\* is itself inside the Shutdown(nil) of the signal branch).
Blocked(c) ==
    /\ ~crashed
    /\ shut[c].pc = "signal"
    /\ shut[c].err
    /\ ~closeChannelClosed
    /\ runPc \in {"shutdown", "returned"}
C25_ShutdownReturns == \A c \in Callers : ~Blocked(c)

\* C26: no Shutdown sends on closeChannel after Run has closed it.
C26_CloseSignalOnce == \A c \in Callers : shut[c].faulted # "signal"

\* C27: a call of Pow or PowInt64 terminates for every pair of inputs (its
\* loop never holds the exponent -1, which n >> 1 maps to itself), and for
\* a # 0 and n >= 0 it returns a to the power n in the integer width.
RECURSIVE Power(_, _)
Power(a, n) == IF n = 0 THEN 1 ELSE a * Power(a, n - 1)
C27_PowTotal ==
    /\ ~(pow.pc = "loop" /\ pow.n = 0 - 1)
    /\ (pow.pc = "done" /\ pow.a0 # 0 /\ pow.n0 >= 0) => pow.result = Wrap(Power(pow.a0, pow.n0))

====
